---- MODULE Spec2Model ----
(***************************************************************************)
(* The PSP721 unique-asset ledger of contracts/token/psp721/src/traits.rs. *)
(*                                                                         *)
(* The contract storage PSP721Data is the variable `ledger`.  Every        *)
(* message of the trait is one action; the helper functions of the trait   *)
(* are operators from a ledger to an outcome.  An outcome is Ok with the   *)
(* ledger the function leaves, or a panic with its message and the ledger  *)
(* at the point of the panic.  A panicking message traps the contract      *)
(* call, and the runtime reverts the storage to what it was when the call  *)
(* started.                                                                *)
(*                                                                         *)
(* safe_transfer_from hands control to the recipient contract between its  *)
(* mutation and its return.  A suspended safe_transfer_from is a frame on  *)
(* `stack`; while a frame is on the stack the recipient's callback may     *)
(* call any message of the ledger again.                                   *)
(*                                                                         *)
(* The multi-category ledgers follow the PSP721 ledger: the PSP37 contract *)
(* of tests/psp37_mintable.rs with its two transfer hooks is the variable  *)
(* `psp37`, a PSP1155 contract with the burn extension of                  *)
(* contracts/token/psp1155/src/extensions/burnable.rs is `psp1155`.  Each  *)
(* has a specification of its own, SpecMint and SpecBurn.                  *)
(***************************************************************************)
EXTENDS Integers, Sequences, FiniteSets, TLC

VARIABLES ledger, stack, last, calls, psp37, psp1155, mlast, events

vars == <<ledger, stack, last, calls, psp37, psp1155, mlast, events>>

\* ------------------------------------------------------------------ bounds
NumAccounts == 2
NumIds == 2
MaxCalls == 3
MaxDepth == 1
MaxBatch == 1
MaxOps == 2
InitialBalance == 1

\* ------------------------------------------------------------- data types
AccountNames == <<"alice", "bob", "charlie", "dave", "eve", "frank">>
ZERO_ADDRESS == "zero"
Accounts == {AccountNames[i] : i \in 1..NumAccounts}
AllAccounts == Accounts \cup {ZERO_ADDRESS}
Id == 1..NumIds

\* Option<T>: None is the empty sequence, Some(v) the sequence of v alone.
None == <<>>
Some(v) == <<v>>
is_some(o) == o # None
unwrap(o) == o[1]
unwrap_or(o, d) == IF o = None THEN d ELSE o[1]
is_zero(a) == a = ZERO_ADDRESS

\* The largest count.  owned_tokens_count holds u32, whose largest value
\* 4294967295 is more than TLC's integers hold; the largest TLC integer stands
\* for it.  Only the steps 0 - 1 and U32Max + 1 depend on it.
U32Max == 2147483647

\* The message of the panic of Option::expect in the approval checks.
ExpectMsg == "PSP721Error with AccountId"

\* A fresh PSP721Data.  operator_approvals.get(..).unwrap_or(&false) reads an
\* absent entry as false and every write stores the value given, so the map
\* is the function of what it reads as.
PSP721Data ==
    [token_owner |-> [i \in Id |-> None],
     token_approvals |-> [i \in Id |-> None],
     owned_tokens_count |-> [a \in AllAccounts |-> None],
     operator_approvals |-> [p \in Accounts \X Accounts |-> FALSE]]

\* ----------------------------------------------------------------- outcomes
\* Ok(()) with the ledger left, Err(e) returned through `?`, and a panic
\* (panic!, assert!, expect) with the ledger at the point of the panic.
Ok(l) == [kind |-> "ok", err |-> "Ok", l |-> l]
Err(e, l) == [kind |-> "err", err |-> e, l |-> l]
Panic(msg, l) == [kind |-> "panic", err |-> msg, l |-> l]

\* ------------------------------------------------------------------ queries
balance_of(l, owner) == unwrap_or(l.owned_tokens_count[owner], 0)

_owner_of(l, id) == l.token_owner[id]

owner_of(l, id) == _owner_of(l, id)

get_approved(l, id) == l.token_approvals[id]

_approved_for_all(l, owner, operator) ==
    IF <<owner, operator>> \in Accounts \X Accounts
    THEN l.operator_approvals[<<owner, operator>>]
    ELSE FALSE

is_approved_for_all(l, owner, operator) == _approved_for_all(l, owner, operator)

\* --------------------------------------------------------------- approvals
\* _approve_for_all without its assert_ne!(to, caller).
_approve_for_all_unchecked(l, caller, to, approved) ==
    Ok([l EXCEPT !.operator_approvals[<<caller, to>>] = approved])

_approve_for_all(l, caller, to, approved) ==
    IF to = caller
    THEN Panic("NotAllowed", l)
    ELSE Ok([l EXCEPT !.operator_approvals[<<caller, to>>] = approved])

_approve_for(l, caller, to, id) ==
    LET owner == _owner_of(l, id) IN
    IF owner = None
    THEN Panic(ExpectMsg, l)
    ELSE IF ~(owner = Some(caller) \/ _approved_for_all(l, unwrap(owner), caller))
    THEN Panic("NotAllowed", l)
    ELSE IF is_zero(to)
    THEN Panic("NotAllowed", l)
    ELSE Ok([l EXCEPT !.token_approvals[id] = Some(to)])

\* _approved_or_owner that takes every non-zero account for approved.
_approved_or_owner_any(l, from, id) ==
    IF is_zero(unwrap_or(from, ZERO_ADDRESS)) THEN "false" ELSE "true"

\* "true", "false", or "panic" when owner.expect meets an absent owner.
_approved_or_owner(l, from, id) ==
    LET owner == _owner_of(l, id) IN
    IF is_zero(unwrap_or(from, ZERO_ADDRESS)) THEN "false"
    ELSE IF from = owner THEN "true"
    ELSE IF from = get_approved(l, id) THEN "true"
    ELSE IF owner = None THEN "panic"
    ELSE IF _approved_for_all(l, unwrap(owner), unwrap(from)) THEN "true"
    ELSE "false"

\* ----------------------------------------------------------- ledger writes
\* _add_to without its assert!(!to.is_zero()).
_add_to_accepts_zero(l, to, id, oc) ==
    IF is_some(l.token_owner[id]) THEN Panic("TokenExists", l)
    ELSE LET l1 == [l EXCEPT !.token_owner[id] = Some(to)]
             c == l1.owned_tokens_count[to]
         IN  Ok([l1 EXCEPT !.owned_tokens_count[to] =
                   Some(IF c = None THEN 1 ELSE unwrap(c) + 1)])

\* _add_to whose occupied entry is overwritten instead of refused.
_add_to_overwrites(l, to, id, oc) ==
    IF is_zero(to) THEN Panic("NotAllowed", l)
    ELSE LET l1 == [l EXCEPT !.token_owner[id] = Some(to)]
             c == l1.owned_tokens_count[to]
         IN  Ok([l1 EXCEPT !.owned_tokens_count[to] =
                   Some(IF c = None THEN 1 ELSE unwrap(c) + 1)])

\* *v += 1 and *v -= 1 on a u32: with overflow checks the arithmetic panics,
\* without them it wraps.  `oc` is whether the build has overflow checks.
_add_to(l, to, id, oc) ==
    IF is_zero(to) THEN Panic("NotAllowed", l)
    ELSE IF is_some(l.token_owner[id]) THEN Panic("TokenExists", l)
    ELSE LET l1 == [l EXCEPT !.token_owner[id] = Some(to)]
             c == l1.owned_tokens_count[to]
         IN  IF c = None
             THEN Ok([l1 EXCEPT !.owned_tokens_count[to] = Some(1)])
             ELSE IF unwrap(c) = U32Max /\ oc
             THEN Panic("attempt to add with overflow", l1)
             ELSE Ok([l1 EXCEPT !.owned_tokens_count[to] =
                        Some(IF unwrap(c) = U32Max THEN 0 ELSE unwrap(c) + 1)])

\* _remove_from without its check that the entry's owner is `caller`.
_remove_from_any_owner(l, caller, id, oc) ==
    IF l.token_owner[id] = None THEN Panic("TokenNotFound", l)
    ELSE LET l1 == [l EXCEPT !.token_owner[id] = None]
             c == l1.owned_tokens_count[caller]
         IN  IF c = None \/ unwrap_or(c, 0) = 0
             THEN Ok(l1)
             ELSE Ok([l1 EXCEPT !.owned_tokens_count[caller] = Some(unwrap(c) - 1)])

\* _remove_from without the decrement of the owner's count.
_remove_from_keeps_count(l, caller, id, oc) ==
    IF l.token_owner[id] = None THEN Panic("TokenNotFound", l)
    ELSE IF unwrap(l.token_owner[id]) # caller THEN Panic("NotOwner", l)
    ELSE Ok([l EXCEPT !.token_owner[id] = None])

_remove_from(l, caller, id, oc) ==
    IF l.token_owner[id] = None THEN Panic("TokenNotFound", l)
    ELSE IF unwrap(l.token_owner[id]) # caller THEN Panic("NotOwner", l)
    ELSE LET l1 == [l EXCEPT !.token_owner[id] = None]
             c == l1.owned_tokens_count[caller]
         IN  IF c = None
             THEN Ok(l1)
             ELSE IF unwrap(c) = 0 /\ oc
             THEN Panic("attempt to subtract with overflow", l1)
             ELSE Ok([l1 EXCEPT !.owned_tokens_count[caller] =
                        Some(IF unwrap(c) = 0 THEN U32Max ELSE unwrap(c) - 1)])

\* _transfer_token_from without token_approvals.take(&id).
_transfer_token_from_keeps_approval(l, caller, from, to, id, oc) ==
    IF ~is_some(l.token_owner[id]) THEN Panic("TokenNotFound", l)
    ELSE LET ao == _approved_or_owner(l, Some(caller), id) IN
    IF ao = "panic" THEN Panic(ExpectMsg, l)
    ELSE IF ao = "false" THEN Panic("NotApproved", l)
    ELSE LET r == _remove_from(l, from, id, oc)
         IN  IF r.kind # "ok" THEN r ELSE _add_to(r.l, to, id, oc)

_transfer_token_from(l, caller, from, to, id, oc) ==
    IF ~is_some(l.token_owner[id]) THEN Panic("TokenNotFound", l)
    ELSE LET ao == _approved_or_owner(l, Some(caller), id) IN
    IF ao = "panic" THEN Panic(ExpectMsg, l)
    ELSE IF ao = "false" THEN Panic("NotApproved", l)
    ELSE LET l1 == [l EXCEPT !.token_approvals[id] = None]
             r == _remove_from(l1, from, id, oc)
         IN  IF r.kind # "ok" THEN r ELSE _add_to(r.l, to, id, oc)

\* ------------------------------------------------- recipient notification
\* What receiver.call_mut().on_psp721_received(..).fire() returns.
FireResults ==
    {"Ok(Ok)", "Ok(Err(TransferRejected))", "Err(NotCallable)",
     "Err(CalleeTrapped)", "Err(CalleeReverted)"}

\* _call_contract_transfer that takes NotCallable for a failure like the rest.
_call_contract_transfer_collapsed(l, fire) ==
    IF fire = "Ok(Ok)" THEN Ok(l) ELSE Panic("CallFailed", l)

\* _call_contract_transfer that returns Err(CallFailed) instead of panicking.
_call_contract_transfer_returns_err(l, fire) ==
    IF fire = "Ok(Ok)" THEN Ok(l)
    ELSE IF fire = "Err(NotCallable)" THEN Ok(l)
    ELSE Err("CallFailed", l)

_call_contract_transfer(l, fire) ==
    IF fire = "Ok(Ok)" THEN Ok(l)
    ELSE IF fire = "Err(NotCallable)" THEN Ok(l)
    ELSE Panic("CallFailed", l)

\* ------------------------------------------------------------ mint and burn
_mint_to(l, to, id, oc) == _add_to(l, to, id, oc)

_mint(l, caller, id, oc) == _mint_to(l, caller, id, oc)

_burn_from(l, from, id, oc) == _remove_from(l, from, id, oc)

_burn(l, caller, id, oc) == _burn_from(l, caller, id, oc)

\* ------------------------------------------------- multi-category ledgers
\* The ids and the amounts of the token types of tests/psp37_mintable.rs.
token_id_1 == 1
token_id_2 == 2
token_1_amount == 1
token_2_amount == 20

TokenIds == {token_id_1, token_id_2}
Amounts == {0, token_1_amount, token_2_amount}

\* Vec<(Id, Balance)> of at most MaxBatch pairs over the ids and the amounts.
Batches(ids, amounts) ==
    UNION {[1..n -> [id : ids, amount : amounts]] : n \in 0..MaxBatch}

\* A map that reads an absent key as `d`, and its write.
get_or(m, k, d) == IF k \in DOMAIN m THEN m[k] ELSE d
insert(m, k, v) == [x \in DOMAIN m \cup {k} |-> IF x = k THEN v ELSE m[x]]
EmptyMap == [x \in {} |-> 0]

\* PSP37Struct::new(): Self::default().  `ids` is the number that
\* total_supply(None) reads.
PSP37Struct ==
    [balances |-> EmptyMap, supply |-> EmptyMap, ids |-> 0,
     return_err_on_before |-> FALSE, return_err_on_after |-> FALSE]

psp37_balance_of(s, owner, id) == get_or(s.balances, <<owner, id>>, 0)

psp37_total_supply(s, id) ==
    IF id = None THEN s.ids ELSE get_or(s.supply, unwrap(id), 0)

BeforeMsg == "Custom(Error on _before_token_transfer)"
AfterMsg == "Custom(Error on _after_token_transfer)"

\* _before_token_transfer that never returns its error.
_before_token_transfer_default(s, from, to, ids) == Ok(s)

_before_token_transfer(s, from, to, ids) ==
    IF s.return_err_on_before THEN Err(BeforeMsg, s) ELSE Ok(s)

\* _after_token_transfer that never returns its error.
_after_token_transfer_default(s, from, to, ids) == Ok(s)

_after_token_transfer(s, from, to, ids) ==
    IF s.return_err_on_after THEN Err(AfterMsg, s) ELSE Ok(s)

change_state_err_on_before(s) ==
    [s EXCEPT !.return_err_on_before = ~s.return_err_on_before]

change_state_err_on_after(s) ==
    [s EXCEPT !.return_err_on_after = ~s.return_err_on_after]

\* The mint of one pair that counts a token type as soon as it is named.
psp37_increase_counts_named(s, to, item) ==
    LET bal == psp37_balance_of(s, to, item.id)
        sup == get_or(s.supply, item.id, 0)
    IN  [s EXCEPT !.balances = insert(s.balances, <<to, item.id>>, bal + item.amount),
                  !.supply = insert(s.supply, item.id, sup + item.amount),
                  !.ids = IF sup = 0 THEN s.ids + 1 ELSE s.ids]

\* The mint of one pair: the balance of `to` and the supply of the token type
\* go up by the amount, and a token type whose supply leaves 0 is counted.  A
\* pair of amount 0 moves nothing.
psp37_increase(s, to, item) ==
    IF item.amount = 0 THEN s
    ELSE LET bal == psp37_balance_of(s, to, item.id)
             sup == get_or(s.supply, item.id, 0)
         IN  [s EXCEPT !.balances = insert(s.balances, <<to, item.id>>,
                                            bal + item.amount),
                       !.supply = insert(s.supply, item.id, sup + item.amount),
                       !.ids = IF sup = 0 THEN s.ids + 1 ELSE s.ids]

RECURSIVE psp37_increase_all(_, _, _)
psp37_increase_all(s, to, items) ==
    IF items = <<>> THEN s
    ELSE psp37_increase_all(psp37_increase(s, to, Head(items)), to, Tail(items))

\* mint(to, ids_amounts): the hook before, the pairs in their order, the hook
\* after; an error of a hook is returned as it is.
psp37_mint(s, to, items) ==
    LET b == _before_token_transfer(s, None, Some(to), items) IN
    IF b.kind # "ok" THEN b
    ELSE LET s1 == psp37_increase_all(s, to, items)
             a == _after_token_transfer(s1, None, Some(to), items)
         IN  IF a.kind # "ok" THEN a ELSE Ok(s1)

\* Whether the environment of the call rolls back a call that returns Err:
\* the contract runtime does, the off-chain environment of the tests does not.
RollsBack == BOOLEAN

\* What a call to a multi-category ledger leaves in its storage.
CommitMulti(pre, r, rb) ==
    IF r.kind = "panic" \/ (r.kind = "err" /\ rb) THEN pre ELSE r.l

\* A fresh PSP1155 ledger whose constructor minted InitialBalance of every
\* token type to every account.
PSP1155Data ==
    [balances |-> [p \in Accounts \X Id |-> InitialBalance],
     operator_approvals |-> [p \in Accounts \X Accounts |-> FALSE],
     allowances |-> [t \in Accounts \X Accounts \X Id |-> 0]]

\* The amounts of a burn: one token, and more than any balance holds.
BurnAmounts == {1, InitialBalance + 1}

psp1155_balance_of(s, owner, id) == get_or(s.balances, <<owner, id>>, 0)

psp1155_is_approved_for_all(s, owner, operator) ==
    get_or(s.operator_approvals, <<owner, operator>>, FALSE)

psp1155_allowance(s, owner, spender, id) ==
    get_or(s.allowances, <<owner, spender, id>>, 0)

psp1155_set_approval_for_all(s, caller, operator, approved) ==
    IF operator = caller
    THEN Panic("NotAllowed", s)
    ELSE Ok([s EXCEPT !.operator_approvals[<<caller, operator>>] = approved])

psp1155_approve(s, caller, spender, id, amount) ==
    IF spender = caller \/ is_zero(spender)
    THEN Panic("NotAllowed", s)
    ELSE Ok([s EXCEPT !.allowances[<<caller, spender, id>>] = amount])

\* _burn(from, id, amount): fails on a balance below the amount.
psp1155__burn(s, from, id, amount) ==
    IF psp1155_balance_of(s, from, id) < amount
    THEN Panic("InsufficientBalance", s)
    ELSE Ok([s EXCEPT !.balances[<<from, id>>] = @ - amount])

RECURSIVE psp1155__burn_batch(_, _, _)
psp1155__burn_batch(s, from, items) ==
    IF items = <<>> THEN Ok(s)
    ELSE LET r == psp1155__burn(s, from, Head(items).id, Head(items).amount)
         IN  IF r.kind # "ok" THEN r
             ELSE psp1155__burn_batch(r.l, from, Tail(items))

psp1155_burn(s, caller, id, amount) == psp1155__burn(s, caller, id, amount)

\* burn_from that takes an allowance of the amount for an approval.
psp1155_burn_from_by_allowance(s, caller, from, id, amount) ==
    IF ~(psp1155_is_approved_for_all(s, from, caller)
         \/ (amount > 0 /\ psp1155_allowance(s, from, caller, id) >= amount))
    THEN Panic("ApproveRequired", s)
    ELSE psp1155__burn(s, from, id, amount)

psp1155_burn_from(s, caller, from, id, amount) ==
    IF ~psp1155_is_approved_for_all(s, from, caller)
    THEN Panic("ApproveRequired", s)
    ELSE psp1155__burn(s, from, id, amount)

psp1155_burn_batch(s, caller, items) == psp1155__burn_batch(s, caller, items)

psp1155_burn_batch_from(s, caller, from, items) ==
    IF ~psp1155_is_approved_for_all(s, from, caller)
    THEN Panic("ApproveRequired", s)
    ELSE psp1155__burn_batch(s, from, items)

\* The record of the last call to a multi-category ledger.
MultiCallRecord(op, caller, from, to, id, amount, items, approved, r, pre) ==
    [op |-> op, caller |-> caller, from |-> from, to |-> to, id |-> id,
     amount |-> amount, items |-> items, approved |-> approved,
     result |-> r.err, kind |-> r.kind, pre |-> pre, at |-> r.l]

NoMultiCall ==
    [op |-> "none", caller |-> ZERO_ADDRESS, from |-> ZERO_ADDRESS,
     to |-> ZERO_ADDRESS, id |-> 0, amount |-> 0, items |-> <<>>,
     approved |-> FALSE, result |-> "Ok", kind |-> "ok", pre |-> 0, at |-> 0]

MultiReady == calls < MaxOps /\ mlast.op = "none"

\* ----------------------------------------------------------------- messages
\* The builds of the contract: with and without overflow checks.
Builds == BOOLEAN

set_approval_for_all(l, caller, to, approved) ==
    _approve_for_all(l, caller, to, approved)

approve(l, caller, to, id) == _approve_for(l, caller, to, id)

transfer_from(l, caller, from, to, id, oc) ==
    _transfer_token_from(l, caller, from, to, id, oc)

\* safe_transfer_from that calls the recipient before it moves the token.
safe_transfer_from_notify_first(l, caller, from, to, id, oc) ==
    LET r == _transfer_token_from(l, caller, from, to, id, oc) IN
    IF r.kind = "ok" THEN Ok(l) ELSE r

\* safe_transfer_from up to its call of the recipient.
safe_transfer_from_transfer(l, caller, from, to, id, oc) ==
    _transfer_token_from(l, caller, from, to, id, oc)

\* A message that panics traps the call and the runtime reverts the storage
\* to `pre`; a message that returns (Ok or Err) keeps what it wrote.
Commit(pre, r) == IF r.kind = "panic" THEN pre ELSE r.l

NoFire == "-"

CallRecord(op, caller, from, to, id, approved, fire, result, pre) ==
    [op |-> op, caller |-> caller, from |-> from, to |-> to, id |-> id,
     approved |-> approved, fire |-> fire, result |-> result, pre |-> pre,
     at |-> pre, steps |-> <<>>, prev |-> ZERO_ADDRESS,
     depth |-> Len(stack), nested |-> 0]

\* The functions that the body of a message calls one after the other, up to
\* the one that panics.  _approve_for and _approve_for_all emit their event
\* themselves; the other messages call _emit_transfer_event last.
EmitIfOk(r) == IF r.kind = "ok" THEN <<"_emit_transfer_event">> ELSE <<>>

Steps(rec, r) ==
    CASE rec.op = "set_approval_for_all" -> <<"_approve_for_all">>
      [] rec.op = "approve" -> <<"_approve_for">>
      [] rec.op = "transfer_from" -> <<"_transfer_token_from">> \o EmitIfOk(r)
      [] rec.op = "safe_transfer_from" ->
            IF rec.fire = NoFire
            THEN <<"_transfer_token_from">>
            ELSE <<"_transfer_token_from", "_call_contract_transfer">>
                    \o EmitIfOk(r)
      [] rec.op \in {"mint", "mint_to"} -> <<"_add_to">> \o EmitIfOk(r)
      [] rec.op = "burn" -> <<"_remove_from">> \o EmitIfOk(r)

\* The Transfer events signalled so far, as far as the order of the events
\* of one id goes: for each id the `to` of the last Transfer event of that id,
\* ZERO_ADDRESS when there is none yet.  _emit_transfer_event(from, to, id) of
\* a message is called with the `from`, `to` and `id` of its record (a mint
\* has `from` ZERO_ADDRESS, a burn has `to` ZERO_ADDRESS).
NoEvents == [i \in Id |-> ZERO_ADDRESS]

Emits(steps) == \E k \in DOMAIN steps : steps[k] = "_emit_transfer_event"

_emit_transfer_event(ev, steps, to, id) ==
    IF Emits(steps) THEN [ev EXCEPT ![id] = to] ELSE ev

\* The `to` of the event that precedes the one the message signals.
Preceding(ev, steps, id) == IF Emits(steps) THEN ev[id] ELSE ZERO_ADDRESS

\* A message that runs to its end without leaving the contract.  The events
\* of a trapped call are gone with the rest of what it did.
Finish(rec, r) ==
    /\ ledger' = Commit(ledger, r)
    /\ last' = [rec EXCEPT !.at = r.l, !.steps = Steps(rec, r),
                           !.prev = Preceding(events, Steps(rec, r), rec.id)]
    /\ events' = _emit_transfer_event(events, Steps(rec, r), rec.to, rec.id)
    /\ calls' = calls + 1
    /\ UNCHANGED <<stack, psp37, psp1155, mlast>>

\* No call has ended since the last one was taken note of.
NoCall ==
    [op |-> "none", caller |-> ZERO_ADDRESS, from |-> ZERO_ADDRESS,
     to |-> ZERO_ADDRESS, id |-> 0, approved |-> FALSE, fire |-> NoFire,
     result |-> "Ok", pre |-> PSP721Data, at |-> PSP721Data, steps |-> <<>>,
     prev |-> ZERO_ADDRESS,
     depth |-> 0, nested |-> 0]

\* A call can start: below the bound on calls, and the one before has ended.
Ready == calls < MaxCalls /\ last = NoCall

Init ==
    /\ ledger = PSP721Data
    /\ stack = <<>>
    /\ calls = 0
    /\ last = NoCall
    /\ psp37 = PSP37Struct
    /\ psp1155 = PSP1155Data
    /\ mlast = NoMultiCall
    /\ events = NoEvents

SetApprovalForAll(caller, to, approved) ==
    /\ Ready
    /\ LET r == set_approval_for_all(ledger, caller, to, approved) IN
       Finish(CallRecord("set_approval_for_all", caller, ZERO_ADDRESS, to, 0,
                         approved, NoFire, r.err, ledger), r)

Approve(caller, to, id) ==
    /\ Ready
    /\ LET r == approve(ledger, caller, to, id) IN
       Finish(CallRecord("approve", caller, ZERO_ADDRESS, to, id,
                         FALSE, NoFire, r.err, ledger), r)

TransferFrom(caller, from, to, id) ==
    /\ Ready
    /\ \E r \in {transfer_from(ledger, caller, from, to, id, oc) : oc \in Builds} :
       Finish(CallRecord("transfer_from", caller, from, to, id,
                         FALSE, NoFire, r.err, ledger), r)

Mint(caller, id) ==
    /\ Ready
    /\ \E r \in {_mint(ledger, caller, id, oc) : oc \in Builds} :
       Finish(CallRecord("mint", caller, ZERO_ADDRESS, caller, id,
                         FALSE, NoFire, r.err, ledger), r)

MintTo(caller, to, id) ==
    /\ Ready
    /\ \E r \in {_mint_to(ledger, to, id, oc) : oc \in Builds} :
       Finish(CallRecord("mint_to", caller, ZERO_ADDRESS, to, id,
                         FALSE, NoFire, r.err, ledger), r)

Burn(caller, id) ==
    /\ Ready
    /\ \E r \in {_burn(ledger, caller, id, oc) : oc \in Builds} :
       Finish(CallRecord("burn", caller, caller, ZERO_ADDRESS, id,
                         FALSE, NoFire, r.err, ledger), r)

\* The recipients that answer at once: an account that is no contract, and,
\* once MaxDepth calls are suspended, a contract whose callback calls nothing.
ImmediateFire ==
    IF Len(stack) < MaxDepth THEN {"Err(NotCallable)"} ELSE FireResults

\* safe_transfer_from up to the point where the recipient has the control.
SafeTransferFrom(caller, from, to, id) ==
    /\ Ready
    /\ \E r \in {safe_transfer_from_transfer(ledger, caller, from, to, id, oc) :
                    oc \in Builds} :
         IF r.kind # "ok"
         THEN Finish(CallRecord("safe_transfer_from", caller, from, to, id,
                                FALSE, NoFire, r.err, ledger), r)
         ELSE \/ \E fire \in ImmediateFire :
                   LET n == _call_contract_transfer(r.l, fire) IN
                   Finish(CallRecord("safe_transfer_from", caller, from, to, id,
                                     FALSE, fire, n.err, ledger), n)
              \/ /\ Len(stack) < MaxDepth
                 /\ ledger' = r.l
                 /\ stack' = Append(stack, [caller |-> caller, from |-> from,
                                            to |-> to, id |-> id,
                                            snap |-> ledger, post |-> r.l,
                                            events |-> events,
                                            calls |-> calls + 1])
                 /\ last' = [CallRecord("safe_transfer_from", caller, from, to,
                                        id, FALSE, NoFire, "pending", ledger)
                               EXCEPT !.at = r.l,
                                      !.steps = <<"_transfer_token_from",
                                                  "_call_contract_transfer">>]
                 /\ calls' = calls + 1
                 /\ UNCHANGED <<psp37, psp1155, mlast, events>>

\* on_psp721_received returns to the suspended safe_transfer_from, which ends.
CallbackReturn(fire) ==
    /\ stack # <<>>
    /\ last = NoCall
    /\ LET f == stack[Len(stack)]
           n == _call_contract_transfer(ledger, fire)
       IN  /\ ledger' = Commit(f.snap, n)
           /\ stack' = SubSeq(stack, 1, Len(stack) - 1)
           /\ last' = [op |-> "safe_transfer_from", caller |-> f.caller,
                       from |-> f.from, to |-> f.to, id |-> f.id,
                       approved |-> FALSE, fire |-> fire, result |-> n.err,
                       pre |-> f.snap, at |-> n.l,
                       steps |-> <<"_transfer_token_from",
                                   "_call_contract_transfer">> \o EmitIfOk(n),
                       prev |-> Preceding(events, EmitIfOk(n), f.id),
                       depth |-> Len(stack) - 1,
                       nested |-> calls - f.calls]
           /\ events' = IF n.kind = "panic"
                        THEN f.events
                        ELSE _emit_transfer_event(events, EmitIfOk(n), f.to, f.id)
           /\ UNCHANGED <<calls, psp37, psp1155, mlast>>

\* The result of the call that ended (or, of a suspended safe_transfer_from,
\* the control) is with its caller, who goes on: an account to its next
\* transaction, the recipient's callback to its next statement.
Continue ==
    /\ last # NoCall
    /\ last' = NoCall
    /\ UNCHANGED <<ledger, stack, calls, psp37, psp1155, mlast, events>>

Next ==
    \/ \E caller \in Accounts, to \in Accounts, approved \in BOOLEAN :
          SetApprovalForAll(caller, to, approved)
    \/ \E caller \in Accounts, to \in AllAccounts, id \in Id :
          Approve(caller, to, id)
    \/ \E caller \in Accounts, from \in AllAccounts, to \in AllAccounts, id \in Id :
          TransferFrom(caller, from, to, id)
    \/ \E caller \in Accounts, from \in AllAccounts, to \in AllAccounts, id \in Id :
          SafeTransferFrom(caller, from, to, id)
    \/ \E caller \in Accounts, id \in Id : Mint(caller, id)
    \/ \E caller \in Accounts, to \in AllAccounts, id \in Id : MintTo(caller, to, id)
    \/ \E caller \in Accounts, id \in Id : Burn(caller, id)
    \/ \E fire \in FireResults \ {"Err(NotCallable)"} : CallbackReturn(fire)
    \/ Continue

Spec == Init /\ [][Next]_vars

\* ------------------------------------- the PSP37 contract of the mint tests
PSP721Idle == UNCHANGED <<ledger, stack, last, events>>

PSP37Mint(to, items) ==
    /\ MultiReady
    /\ LET r == psp37_mint(psp37, to, items) IN
       \E rb \in RollsBack :
         /\ psp37' = CommitMulti(psp37, r, rb)
         /\ mlast' = MultiCallRecord("mint", ZERO_ADDRESS, ZERO_ADDRESS, to, 0, 0,
                                     items, FALSE, r, psp37)
    /\ calls' = calls + 1
    /\ UNCHANGED psp1155
    /\ PSP721Idle

ChangeStateErrOnBefore ==
    /\ MultiReady
    /\ psp37' = change_state_err_on_before(psp37)
    /\ mlast' = MultiCallRecord("change_state_err_on_before", ZERO_ADDRESS,
                                ZERO_ADDRESS, ZERO_ADDRESS, 0, 0, <<>>, FALSE,
                                Ok(psp37'), psp37)
    /\ calls' = calls + 1
    /\ UNCHANGED psp1155
    /\ PSP721Idle

ChangeStateErrOnAfter ==
    /\ MultiReady
    /\ psp37' = change_state_err_on_after(psp37)
    /\ mlast' = MultiCallRecord("change_state_err_on_after", ZERO_ADDRESS,
                                ZERO_ADDRESS, ZERO_ADDRESS, 0, 0, <<>>, FALSE,
                                Ok(psp37'), psp37)
    /\ calls' = calls + 1
    /\ UNCHANGED psp1155
    /\ PSP721Idle

\* The result of the call is with its caller, who goes on.
MultiContinue ==
    /\ mlast.op # "none"
    /\ mlast' = NoMultiCall
    /\ UNCHANGED <<calls, psp37, psp1155>>
    /\ PSP721Idle

NextMint ==
    \/ \E to \in Accounts, items \in Batches(TokenIds, Amounts) : PSP37Mint(to, items)
    \/ ChangeStateErrOnBefore
    \/ ChangeStateErrOnAfter
    \/ MultiContinue

SpecMint == Init /\ [][NextMint]_vars

\* ------------------------------------ a PSP1155 contract that is burnable
\* Of a call to the PSP1155 ledger the record keeps who called, on whose
\* tokens, and the ledger before and after, not the token types and amounts.
FinishBurn(rec, r) ==
    /\ psp1155' = CommitMulti(psp1155, r, TRUE)
    /\ mlast' = rec
    /\ calls' = calls + 1
    /\ UNCHANGED psp37
    /\ PSP721Idle

PSP1155SetApprovalForAll(caller, operator, approved) ==
    /\ MultiReady
    /\ LET r == psp1155_set_approval_for_all(psp1155, caller, operator, approved) IN
       FinishBurn(MultiCallRecord("set_approval_for_all", caller, ZERO_ADDRESS,
                                  operator, 0, 0, <<>>, approved, r, psp1155), r)

PSP1155Approve(caller, spender, id, amount) ==
    /\ MultiReady
    /\ LET r == psp1155_approve(psp1155, caller, spender, id, amount) IN
       FinishBurn(MultiCallRecord("approve", caller, ZERO_ADDRESS, spender, 0,
                                  0, <<>>, FALSE, r, psp1155), r)

PSP1155Burn(caller, id, amount) ==
    /\ MultiReady
    /\ LET r == psp1155_burn(psp1155, caller, id, amount) IN
       FinishBurn(MultiCallRecord("burn", caller, caller, ZERO_ADDRESS, 0,
                                  0, <<>>, FALSE, r, psp1155), r)

PSP1155BurnFrom(caller, from, id, amount) ==
    /\ MultiReady
    /\ LET r == psp1155_burn_from(psp1155, caller, from, id, amount) IN
       FinishBurn(MultiCallRecord("burn_from", caller, from, ZERO_ADDRESS, 0,
                                  0, <<>>, FALSE, r, psp1155), r)

PSP1155BurnBatch(caller, items) ==
    /\ MultiReady
    /\ LET r == psp1155_burn_batch(psp1155, caller, items) IN
       FinishBurn(MultiCallRecord("burn_batch", caller, caller, ZERO_ADDRESS, 0,
                                  0, <<>>, FALSE, r, psp1155), r)

PSP1155BurnBatchFrom(caller, from, items) ==
    /\ MultiReady
    /\ LET r == psp1155_burn_batch_from(psp1155, caller, from, items) IN
       FinishBurn(MultiCallRecord("burn_batch_from", caller, from, ZERO_ADDRESS,
                                  0, 0, <<>>, FALSE, r, psp1155), r)

NextBurn ==
    \/ \E caller \in Accounts, operator \in Accounts, approved \in BOOLEAN :
          PSP1155SetApprovalForAll(caller, operator, approved)
    \/ \E caller \in Accounts, spender \in Accounts, id \in Id,
          amount \in {0, InitialBalance} :
          PSP1155Approve(caller, spender, id, amount)
    \/ \E caller \in Accounts, id \in Id, amount \in BurnAmounts :
          PSP1155Burn(caller, id, amount)
    \/ \E caller \in Accounts, from \in Accounts, id \in Id, amount \in BurnAmounts :
          PSP1155BurnFrom(caller, from, id, amount)
    \/ \E caller \in Accounts, items \in Batches(Id, BurnAmounts) :
          PSP1155BurnBatch(caller, items)
    \/ \E caller \in Accounts, from \in Accounts, items \in Batches(Id, BurnAmounts) :
          PSP1155BurnBatchFrom(caller, from, items)
    \/ MultiContinue

SpecBurn == Init /\ [][NextBurn]_vars

\* ------------------------------------------------------------------ claims
\* What the claims say of a ledger, in the terms of the public queries.
Owned(l, a) == {i \in Id : owner_of(l, i) = Some(a)}

CountsAgree(l) == \A a \in AllAccounts : balance_of(l, a) = Cardinality(Owned(l, a))

SameOwnership(l1, l2) ==
    /\ \A i \in Id : owner_of(l1, i) = owner_of(l2, i)
    /\ \A i \in Id : get_approved(l1, i) = get_approved(l2, i)
    /\ \A a \in AllAccounts : balance_of(l1, a) = balance_of(l2, a)

IsOwner(l, c, id) == owner_of(l, id) = Some(c)

IsOperatorOfOwner(l, c, id) ==
    /\ is_some(owner_of(l, id))
    /\ is_approved_for_all(l, unwrap(owner_of(l, id)), c)

Authorized(l, c, id) ==
    \/ IsOwner(l, c, id)
    \/ get_approved(l, id) = Some(c)
    \/ IsOperatorOfOwner(l, c, id)

Failed == last.op # "none" /\ last.result \notin {"Ok", "pending"}

Succeeded == last.op # "none" /\ last.result = "Ok"

\* C1: in every reachable state, for every account A, balance_of(A) is the
\* number of ids whose owner_of is A, and no call has taken a count below zero
\* (neither wrapped it nor panicked on the subtraction).
C1_CountsMatchOwnership ==
    /\ CountsAgree(ledger)
    /\ last.result \notin {"attempt to subtract with overflow",
                           "attempt to add with overflow"}

\* C1's case: a transfer between two accounts has moved a count from one to
\* the other.
C1_Witness ==
    /\ last.op = "transfer_from" /\ Succeeded
    /\ last.from # last.to
    /\ balance_of(last.pre, last.from) = 1
    /\ balance_of(ledger, last.from) = 0
    /\ balance_of(ledger, last.to) = 1

\* C2: transfer_from of an existing id by a caller that is not its owner, not
\* its approved spender and not an operator of its owner fails with
\* NotApproved or NotOwner, whatever from and to are, and owner_of,
\* get_approved and every balance_of are as before the call.
C2_UnauthorizedTransferRejected ==
    (/\ last.op = "transfer_from"
     /\ is_some(owner_of(last.pre, last.id))
     /\ ~Authorized(last.pre, last.caller, last.id))
    => (/\ last.result \in {"NotApproved", "NotOwner"}
        /\ SameOwnership(ledger, last.pre))

\* C2's case: a stranger named the true owner as `from` and was refused.
C2_Witness ==
    /\ last.op = "transfer_from"
    /\ is_some(owner_of(last.pre, last.id))
    /\ ~Authorized(last.pre, last.caller, last.id)
    /\ IsOwner(last.pre, last.from, last.id)
    /\ last.to = last.caller
    /\ last.result = "NotApproved"

\* The suspended safe_transfer_from whose callback made the call in `last`.
CallbackFrame == stack[last.depth]

InCallback == last.op # "none" /\ last.depth >= 1 /\ last.depth <= Len(stack)

\* The caller's only title to the id of frame f is the one it had before the
\* move: it was the owner or the approved spender, and it is neither the new
\* owner nor an operator of the new owner.
OldAuthorityOnly(f, c) ==
    /\ \/ IsOwner(f.snap, c, f.id)
       \/ get_approved(f.snap, f.id) = Some(c)
    /\ c # f.to
    /\ ~is_approved_for_all(f.post, f.to, c)

\* C3: when the recipient's callback gets the control, owner_of(id) is `to`,
\* get_approved(id) is None and the counts agree with the ownership; and a
\* transfer_from, safe_transfer_from or burn of the same id that the callback
\* issues on that ledger in the name of the previous owner or the previous
\* approved spender is rejected.
C3_CallbackSeesMovedToken ==
    /\ last.result = "pending" =>
         /\ owner_of(ledger, last.id) = Some(last.to)
         /\ get_approved(ledger, last.id) = None
         /\ CountsAgree(ledger)
    /\ (/\ InCallback
        /\ last.op \in {"transfer_from", "safe_transfer_from", "burn"}
        /\ last.id = CallbackFrame.id
        /\ last.pre = CallbackFrame.post
        /\ OldAuthorityOnly(CallbackFrame, last.caller))
       => Failed

\* C3's case: from inside the callback the previous owner tried to move the
\* id once more and was refused.
C3_Witness ==
    /\ InCallback
    /\ last.op = "transfer_from"
    /\ last.id = CallbackFrame.id
    /\ last.pre = CallbackFrame.post
    /\ last.caller = CallbackFrame.from
    /\ OldAuthorityOnly(CallbackFrame, last.caller)
    /\ last.result = "NotApproved"

\* C4: a safe_transfer_from that reached the notification succeeds when the
\* callback returned Ok, succeeds when the recipient is not callable, and
\* fails with CallFailed in every other case.
C4_NotificationOutcomes ==
    (last.op = "safe_transfer_from" /\ last.fire # NoFire)
    => /\ last.fire = "Ok(Ok)" => last.result = "Ok"
       /\ last.fire = "Err(NotCallable)" => last.result = "Ok"
       /\ last.fire \notin {"Ok(Ok)", "Err(NotCallable)"} => last.result = "CallFailed"

\* C4's case: the call of the recipient failed for a reason other than
\* NotCallable.
C4_Witness ==
    /\ last.op = "safe_transfer_from"
    /\ last.fire = "Err(CalleeTrapped)"
    /\ last.result = "CallFailed"

\* C5: after a call that failed, token_owner, token_approvals,
\* owned_tokens_count and operator_approvals are what they were before the
\* call; a safe_transfer_from whose callback rejects fails with CallFailed and
\* leaves the id with `from` and its approval as it was.
C5_FailedCallChangesNothing ==
    /\ Failed => ledger = last.pre
    /\ (last.op = "safe_transfer_from" /\ last.fire = "Ok(Err(TransferRejected))")
       => /\ last.result = "CallFailed"
          /\ owner_of(ledger, last.id) = Some(last.from)
          /\ get_approved(ledger, last.id) = get_approved(last.pre, last.id)

\* C5's case: the callback rejected a safe_transfer_from of an id that had an
\* approved spender.
C5_Witness ==
    /\ last.op = "safe_transfer_from"
    /\ last.fire = "Ok(Err(TransferRejected))"
    /\ last.result = "CallFailed"
    /\ is_some(get_approved(last.pre, last.id))
    /\ ledger = last.pre

\* C6 as stated: after any successful transfer_from or safe_transfer_from of
\* id, get_approved(id) is None.  Stated for the transfers between two
\* accounts that leave no owner approved for its own id, so that what
\* refutes it does not rest on approve accepting the caller as spender (C9).
C6_ApprovalNoneAfterTransfer ==
    (/\ last.op \in {"transfer_from", "safe_transfer_from"} /\ Succeeded
     /\ last.from # last.to
     /\ get_approved(ledger, last.id) # owner_of(ledger, last.id))
    => get_approved(ledger, last.id) = None

\* C6 as amended: after a successful transfer_from of id, and after a
\* successful safe_transfer_from of id whose recipient made no call to the
\* ledger from its callback, get_approved(id) is None, whatever approval was
\* set before and whoever the caller was; in every safe_transfer_from the
\* approval is None when the callback gets the control, and an approval
\* found after a successful safe_transfer_from was granted during the
\* callback.
C6_ApprovalClearedByTransfer ==
    /\ (last.op = "transfer_from" /\ Succeeded)
       => get_approved(ledger, last.id) = None
    /\ last.result = "pending" => get_approved(ledger, last.id) = None
    /\ (last.op = "safe_transfer_from" /\ Succeeded /\ last.nested = 0)
       => get_approved(ledger, last.id) = None

\* C6's case: the approved spender moved the id, and its approval is gone.
C6_Witness ==
    /\ last.op = "transfer_from" /\ Succeeded
    /\ get_approved(last.pre, last.id) = Some(last.caller)
    /\ ~IsOwner(last.pre, last.caller, last.id)
    /\ get_approved(ledger, last.id) = None

IsMint == last.op \in {"mint", "mint_to"}

\* C7 as stated: minting an id that has an owner fails with TokenExists for
\* every target account and changes no owner and no balance; minting an id
\* that has no owner to a non-zero account makes that account its owner.
C7_MintExistingIsTokenExists ==
    /\ (IsMint /\ is_some(owner_of(last.pre, last.id)))
       => /\ last.result = "TokenExists"
          /\ SameOwnership(ledger, last.pre)
    /\ (IsMint /\ owner_of(last.pre, last.id) = None /\ ~is_zero(last.to))
       => /\ Succeeded
          /\ owner_of(ledger, last.id) = Some(last.to)

\* C7 as amended: minting an id that has an owner fails, with TokenExists for
\* every non-zero target account and with NotAllowed for the zero account
\* (the zero check comes first), and changes no owner and no balance; minting
\* an id that has no owner to a non-zero account makes that account its owner.
C7_MintExistingRejected ==
    /\ (IsMint /\ is_some(owner_of(last.pre, last.id)))
       => /\ last.result = (IF is_zero(last.to) THEN "NotAllowed" ELSE "TokenExists")
          /\ SameOwnership(ledger, last.pre)
    /\ (IsMint /\ owner_of(last.pre, last.id) = None /\ ~is_zero(last.to))
       => /\ Succeeded
          /\ owner_of(ledger, last.id) = Some(last.to)

\* C7's case: an id owned by one account was minted again to another.
C7_Witness ==
    /\ last.op = "mint_to"
    /\ is_some(owner_of(last.pre, last.id))
    /\ ~is_zero(last.to)
    /\ owner_of(last.pre, last.id) # Some(last.to)
    /\ last.result = "TokenExists"
    /\ owner_of(ledger, last.id) = owner_of(last.pre, last.id)

MayApprove(l, c, id) == IsOwner(l, c, id) \/ IsOperatorOfOwner(l, c, id)

\* C8: approve(spender, id) succeeds only if the caller is the owner of id or
\* an operator of that owner; a call by any other account fails with
\* NotAllowed and leaves get_approved(id) as it was; on success
\* get_approved(id) is the spender.
C8_ApproveOnlyByOwnerOrOperator ==
    last.op = "approve" =>
      /\ Succeeded => /\ MayApprove(last.pre, last.caller, last.id)
                      /\ get_approved(ledger, last.id) = Some(last.to)
      /\ ~MayApprove(last.pre, last.caller, last.id)
         => /\ last.result = "NotAllowed"
            /\ get_approved(ledger, last.id) = get_approved(last.pre, last.id)

\* C9: approve(spender, id) with spender equal to the caller, by the owner of
\* id or an operator of the owner, fails with NotAllowed and leaves
\* get_approved(id) as it was.
C9_SelfApproveRejected ==
    (/\ last.op = "approve"
     /\ last.to = last.caller
     /\ MayApprove(last.pre, last.caller, last.id))
    => /\ last.result = "NotAllowed"
       /\ get_approved(ledger, last.id) = get_approved(last.pre, last.id)

\* C10: set_approval_for_all(operator, approved) with operator equal to the
\* caller fails with NotAllowed for both values of approved, and in every
\* reachable state is_approved_for_all(A, A) is false for every account A.
C10_NoSelfOperator ==
    /\ (last.op = "set_approval_for_all" /\ last.to = last.caller)
       => last.result = "NotAllowed"
    /\ \A a \in AllAccounts : ~is_approved_for_all(ledger, a, a)

\* C10's case: an account that has an operator tried to approve itself.
C10_Witness ==
    /\ last.op = "set_approval_for_all"
    /\ last.to = last.caller
    /\ last.approved
    /\ last.result = "NotAllowed"
    /\ \E o \in Accounts : is_approved_for_all(ledger, last.caller, o)

\* The messages that move an id from one account to another.
IsTransfer == last.op \in {"transfer_from", "safe_transfer_from"}

C12_MissingIdDeclaredError ==
    (/\ last.op \in {"approve", "transfer_from", "safe_transfer_from"}
     /\ owner_of(last.pre, last.id) = None)
      => last.result \in {"TokenNotFound", "NotAllowed", "NotApproved"}

\* C17: a transfer_from that succeeds was given the owner of the id as `from`;
\* after it owner_of(id) is `to`, balance_of(from) is one less and
\* balance_of(to) one more (both as before when from = to), get_approved(id) is
\* None, and the owner and approval of every other id, the balance of every
\* other account and every operator approval are as before the call.
C17_TransferFrameEffect ==
    (last.op = "transfer_from" /\ Succeeded) =>
      /\ IsOwner(last.pre, last.from, last.id)
      /\ owner_of(ledger, last.id) = Some(last.to)
      /\ get_approved(ledger, last.id) = None
      /\ IF last.from = last.to
         THEN balance_of(ledger, last.to) = balance_of(last.pre, last.to)
         ELSE /\ balance_of(ledger, last.from) = balance_of(last.pre, last.from) - 1
              /\ balance_of(ledger, last.to) = balance_of(last.pre, last.to) + 1
      /\ \A i \in Id \ {last.id} :
            /\ owner_of(ledger, i) = owner_of(last.pre, i)
            /\ get_approved(ledger, i) = get_approved(last.pre, i)
      /\ \A a \in AllAccounts \ {last.from, last.to} :
            balance_of(ledger, a) = balance_of(last.pre, a)
      /\ \A o \in Accounts, p \in Accounts :
            is_approved_for_all(ledger, o, p) = is_approved_for_all(last.pre, o, p)

\* C17's case: an account that is not the owner has moved an id, whose approval
\* was set, from its owner to another account.
C17_Witness ==
    /\ last.op = "transfer_from"
    /\ Succeeded
    /\ last.from # last.to
    /\ last.caller # last.from
    /\ is_some(get_approved(last.pre, last.id))
    /\ balance_of(ledger, last.to) = 1

\* C18: a transfer_from or safe_transfer_from that fails one of its checks (the
\* id exists, the caller is authorized, `from` is the owner, `to` is not zero)
\* has written nothing at the point of the failure: the ledger there is the
\* ledger the call started with.
C18_ChecksBeforeWrites ==
    (/\ IsTransfer
     /\ last.result \in {"TokenNotFound", "NotApproved", "NotOwner", "NotAllowed"})
      => last.at = last.pre

\* The call of the function that changes the ownership, in each message.
Mutation ==
    CASE IsTransfer -> "_transfer_token_from"
      [] IsMint -> "_add_to"
      [] last.op = "burn" -> "_remove_from"
      [] OTHER -> "-"

\* C19: every mint, burn, transfer_from and safe_transfer_from that succeeds
\* has run, in this order: the before_transfer hook, the change of the
\* ownership, (safe_transfer_from only) the call of the recipient, the
\* after_transfer hook, the emission of the event.
C19_HooksBracketMutation ==
    (Succeeded /\ Mutation # "-") =>
      last.steps = <<"_before_token_transfer", Mutation>>
                     \o (IF last.op = "safe_transfer_from"
                         THEN <<"_call_contract_transfer">> ELSE <<>>)
                     \o <<"_after_token_transfer", "_emit_transfer_event">>

\* C20: in every reachable state an id with no owner has no approval, so that
\* get_approved(id) is None after a burn of id and no approval given before
\* the burn is there when the id is minted again.
C20_NoApprovalWithoutOwner ==
    \A i \in Id : owner_of(ledger, i) = None => get_approved(ledger, i) = None

\* What the claims on the multi-category ledgers say, in the terms of the
\* public queries.
RECURSIVE SumFor(_, _)
SumFor(items, id) ==
    IF items = <<>> THEN 0
    ELSE (IF Head(items).id = id THEN Head(items).amount ELSE 0)
           + SumFor(Tail(items), id)

SameBalancesAndSupply(s1, s2) ==
    /\ \A o \in AllAccounts, i \in TokenIds :
          psp37_balance_of(s1, o, i) = psp37_balance_of(s2, o, i)
    /\ \A i \in TokenIds :
          psp37_total_supply(s1, Some(i)) = psp37_total_supply(s2, Some(i))
    /\ psp37_total_supply(s1, None) = psp37_total_supply(s2, None)

\* The balances and supplies of `s1` are those of `s2` with the pairs of
\* `items` minted to `to`.
MintedOnTopOf(s1, s2, to, items) ==
    /\ \A o \in AllAccounts, i \in TokenIds :
          psp37_balance_of(s1, o, i) =
             psp37_balance_of(s2, o, i) + (IF o = to THEN SumFor(items, i) ELSE 0)
    /\ \A i \in TokenIds :
          psp37_total_supply(s1, Some(i)) =
             psp37_total_supply(s2, Some(i)) + SumFor(items, i)

MintCalled == mlast.op = "mint"

\* C13: a mint whose _before_token_transfer returns its error returns exactly
\* that error, Custom("Error on _before_token_transfer"), and has changed no
\* balance and no supply, neither when it returns nor afterwards; the same
\* mint with both hooks succeeding returns Ok.
C13_BeforeHookVetoesMint ==
    /\ (MintCalled /\ mlast.pre.return_err_on_before) =>
          /\ mlast.kind = "err"
          /\ mlast.result = BeforeMsg
          /\ SameBalancesAndSupply(mlast.at, mlast.pre)
          /\ SameBalancesAndSupply(psp37, mlast.pre)
    /\ (/\ MintCalled
        /\ ~mlast.pre.return_err_on_before
        /\ ~mlast.pre.return_err_on_after) => mlast.kind = "ok"

\* C13's case: a mint of a non-zero amount was vetoed by the hook.
C13_Witness ==
    /\ MintCalled
    /\ mlast.pre.return_err_on_before
    /\ mlast.result = BeforeMsg
    /\ \E k \in DOMAIN mlast.items : mlast.items[k].amount > 0

\* C14: a mint whose _before_token_transfer succeeds and whose
\* _after_token_transfer returns its error returns exactly that error,
\* Custom("Error on _after_token_transfer"), and at the point where it
\* returns the balances and the supplies are already those after the mint.
C14_AfterHookFailsAfterMutation ==
    (/\ MintCalled
     /\ ~mlast.pre.return_err_on_before
     /\ mlast.pre.return_err_on_after) =>
       /\ mlast.kind = "err"
       /\ mlast.result = AfterMsg
       /\ MintedOnTopOf(mlast.at, mlast.pre, mlast.to, mlast.items)

\* C14's case: the hook failed a mint of a non-zero amount, whose balance was
\* there when the hook ran.
C14_Witness ==
    /\ MintCalled
    /\ mlast.result = AfterMsg
    /\ \E k \in DOMAIN mlast.items :
          /\ mlast.items[k].amount > 0
          /\ psp37_balance_of(mlast.at, mlast.to, mlast.items[k].id)
               > psp37_balance_of(mlast.pre, mlast.to, mlast.items[k].id)

\* C15: a mint that succeeds has added each amount to balance_of(to, id) and
\* left every other balance as it was; a pair that was never minted reads 0;
\* and in every state total_supply(None) is the number of ids whose supply is
\* not 0 (0 on a fresh ledger).
C15_MintAddsExactly ==
    /\ (MintCalled /\ mlast.kind = "ok") =>
          MintedOnTopOf(psp37, mlast.pre, mlast.to, mlast.items)
    /\ \A o \in AllAccounts, i \in TokenIds :
          psp37_total_supply(psp37, Some(i)) = 0 => psp37_balance_of(psp37, o, i) = 0
    /\ psp37_total_supply(psp37, None) =
          Cardinality({i \in TokenIds : psp37_total_supply(psp37, Some(i)) > 0})
    /\ psp37_total_supply(PSP37Struct, None) = 0

\* C15's case: two mints of two different ids, and total_supply(None) is 2.
C15_Witness ==
    /\ MintCalled
    /\ mlast.kind = "ok"
    /\ psp37_total_supply(mlast.pre, None) = 1
    /\ psp37_total_supply(psp37, None) = 2

BurnCalled == mlast.op \in {"burn", "burn_batch", "burn_from", "burn_batch_from"}

BurnFromCalled == mlast.op \in {"burn_from", "burn_batch_from"}

Reduced(s1, s2, a) ==
    \E i \in Id : psp1155_balance_of(s1, a, i) < psp1155_balance_of(s2, a, i)

\* C16: burn and burn_batch change no balance but the caller's; burn_from and
\* burn_batch_from by a caller that `from` has not approved as operator fail
\* with ApproveRequired with no balance changed at the point of the failure,
\* whatever allowance the caller has and also when the caller is `from`; so a
\* call of the burn extension reduces a balance of an account other than the
\* caller only if that account has the caller approved as operator.
C16_BurnNeedsOperatorApproval ==
    /\ mlast.op \in {"burn", "burn_batch"} =>
          \A a \in Accounts \ {mlast.caller} : ~Reduced(psp1155, mlast.pre, a)
    /\ (/\ BurnFromCalled
        /\ ~psp1155_is_approved_for_all(mlast.pre, mlast.from, mlast.caller)) =>
          /\ mlast.result = "ApproveRequired"
          /\ mlast.at = mlast.pre
          /\ psp1155 = mlast.pre
    /\ (BurnFromCalled /\ mlast.from = mlast.caller) =>
          mlast.result = "ApproveRequired"
    /\ BurnCalled =>
          \A a \in Accounts \ {mlast.caller} :
             Reduced(psp1155, mlast.pre, a) =>
                psp1155_is_approved_for_all(mlast.pre, a, mlast.caller)

\* C16's case: an account that holds an allowance from `from`, and is not its
\* operator, has called burn_from on the tokens of `from`.
C16_Witness ==
    /\ mlast.op = "burn_from"
    /\ mlast.from # mlast.caller
    /\ \E i \in Id : psp1155_allowance(mlast.pre, mlast.from, mlast.caller, i) > 0
    /\ mlast.result = "ApproveRequired"

\* The message signals a Transfer event when it succeeds.
SignalsTransfer == Mutation # "-"

Emitted == Cardinality({k \in DOMAIN last.steps :
                           last.steps[k] = "_emit_transfer_event"})

\* C21: a mint, burn, transfer_from or safe_transfer_from that succeeds has
\* signalled exactly one Transfer event and one that fails none; and the
\* `from` of every Transfer event is the `to` of the Transfer event before it
\* for the same id (the zero account when there is none), also when the
\* callback of a safe_transfer_from has moved the id again before the
\* safe_transfer_from signals its own event.
C21_EventsFollowOwnership ==
    /\ (SignalsTransfer /\ Succeeded) => Emitted = 1
    /\ Failed => Emitted = 0
    /\ (SignalsTransfer /\ Emitted > 0) => last.from = last.prev

====
